---- MODULE Spec2Model ----
(***************************************************************************)
(* A model of the two crawl scripts of lab_1:                              *)
(*   crawl_news.py  crawl_articles(args) and its __main__ block            *)
(*   crawl.py       crawl_news(args)     and its __main__ block            *)
(* The search API, the extraction collaborator (trafilatura) and the       *)
(* interrupt signal are the environment: every page fetch, every page      *)
(* response and every extraction outcome is drawn from a small set.        *)
(***************************************************************************)
EXTENDS Integers, Sequences, FiniteSets, TLC

(* ------------------------------ bounds -------------------------------- *)
MaxDates == 2
MaxPages == 2
MaxWorkers == 2
MaxArticles == 3

(* ------------------------- program constants -------------------------- *)
(* args.max_trials: the default of --max-trials. *)
max_trials == 3

(* ------------------------- values of the model ------------------------ *)
(* Python's None and a value that is not None; an unassigned local variable;
   a file that was never written. *)
None == <<>>
Some(x) == <<x>>
Unbound == <<>>
NotWritten == <<>>

(* The empty string where a page URL is expected. *)
EmptyURL == [date |-> 0, start |-> 0]

(* The "collection" field of a response: absent, null, or a list whose first
   element carries a script. *)
Absent == [kind |-> "absent", script |-> <<>>]
Null == [kind |-> "null", script |-> <<>>]
Collection(script) == [kind |-> "list", script |-> script]

(* The scripts the API may put in the first element of "collection", each
   given by the contentHref values it holds, in the order they occur: none,
   one, two, and two of which one was served before. *)
Scripts == {<<>>, <<"a">>, <<"a", "b">>, <<"c", "a">>}

(* A page URL of the search API: the date window and the "start" cursor. *)
PageURL(d, p) == [date |-> d, start |-> p]

(* The "url" field the API may serve for page p of a window: the next page's
   link, or the empty string; the last page the API has serves the empty string. *)
NextLinks(d, p) == {EmptyURL} \cup (IF p < MaxPages THEN {PageURL(d, p + 1)} ELSE {})

(* The JSON objects the API may serve for a page URL. *)
Responses(u) ==
    [collection : {Null, Absent} \cup {Collection(s) : s \in Scripts},
     url : NextLinks(u.date, u.start)]

(* The ways one article extraction can end. *)
Outcomes == {"ok", "no_content", "download_failed", "error"}

VARIABLES
    prog,             \* which script runs: "crawl_articles" or "crawl_news"
    num_dates,        \* len(dates)
    num_workers,      \* args.num_workers / args.num_processes
    pc,               \* the orchestrating process's position
    date,             \* index of the date window in dates
    next_url,
    num_trials,
    response,         \* the local variable "response": Unbound until assigned
    article_urls,
    crawled_urls,
    crawled_articles,
    progress_bar,     \* progress_bar.n
    pool_next,        \* index of the next task the pool hands to a worker
    pool_running,     \* indices of the tasks workers are extracting
    pool_results,     \* results completed and not yet iterated, in completion order
    pool_taken,       \* how many results the for loop has iterated
    output,           \* the output file
    error,            \* the exception that ended the run, if any
    fetch_log,        \* the requests.get / sleep calls of the current page's retry loop
    submitted,        \* URLs handed to a pool so far
    resubmitted,      \* URLs handed to a pool more than once
    served,           \* the responses requests.get returned in this date window, in order
    get_failed,       \* whether a requests.get raised so far
    extract_failed,   \* whether an extraction of this date window yielded no record
    windows,          \* the date windows the for loop has entered, in order
    cancelled,        \* whether the interrupt signal was raised
    sleep_due         \* whether a batch was extracted and no sleep followed it yet

vars == <<prog, num_dates, num_workers, pc, date, next_url, num_trials,
          response, article_urls, crawled_urls, crawled_articles, progress_bar,
          pool_next, pool_running, pool_results, pool_taken, output, error,
          fetch_log, submitted, resubmitted, served, get_failed, extract_failed,
          windows, cancelled, sleep_due>>

argVars == <<prog, num_dates, num_workers>>
poolVars == <<pool_next, pool_running, pool_results, pool_taken>>
histVars == <<fetch_log, submitted, resubmitted, served, get_failed, extract_failed>>
apiVars == <<served, get_failed, extract_failed>>
auxVars == <<windows, cancelled, sleep_due>>

(* ------------------------------ helpers ------------------------------- *)
Range(s) == {s[i] : i \in 1..Len(s)}

(* re.findall(r"\"contentHref\":\"(.*?)\"", script): every contentHref value,
   in order, repeats included. *)
FindAll(script) == script

(* The record trafilatura yields for a URL (json.loads of extract's output). *)
ArticleBody(u) == [title |-> u, text |-> u, source |-> u]

(* get_article_body(url): None unless the extraction yielded content. *)
GetArticleBody(u, outcome) ==
    IF outcome = "ok" THEN Some(ArticleBody(u)) ELSE None

(* crawl_one_news_page(url): only the TypeError of json.loads(None) is caught;
   any other error of the extraction leaves the function as an exception. *)
CrawlOneNewsPageRaises(outcome) == outcome = "error"
CrawlOneNewsPage(u, outcome) ==
    IF outcome = "ok" THEN Some(ArticleBody(u)) ELSE None

(* The seed URL of a date window: start=1. *)
SeedURL(d) == PageURL(d, 1)

(* The state right after construction of crawl_articles' locals. *)
InitCommon ==
    /\ num_dates \in 1..MaxDates
    /\ num_workers \in 1..MaxWorkers
    /\ pc = "for_date"
    /\ date = 0
    /\ next_url = EmptyURL
    /\ num_trials = 0
    /\ response = Unbound
    /\ article_urls = <<>>
    /\ crawled_urls = {}
    /\ crawled_articles = <<>>
    /\ progress_bar = 0
    /\ pool_next = 1
    /\ pool_running = {}
    /\ pool_results = <<>>
    /\ pool_taken = 0
    /\ output = NotWritten
    /\ error = "none"
    /\ fetch_log = <<>>
    /\ submitted = {}
    /\ resubmitted = {}
    /\ served = <<>>
    /\ get_failed = FALSE
    /\ extract_failed = FALSE
    /\ windows = <<>>
    /\ cancelled = FALSE
    /\ sleep_due = FALSE

Init == prog = "crawl_articles" /\ InitCommon

(* --------------------- crawl_news.py: crawl_articles ------------------- *)

(* A for loop that takes every other element of dates. *)
NextDateSkipping(d) == d + 2

(* The element of dates the for loop takes after element d: dates holds the
   days from start_date to end_date, one per day, and a day is named by its
   position in dates. *)
NextDate(d) == d + 1

(* for date in dates: the next window's seed URL, or the return. *)
ForDate ==
    /\ pc = "for_date"
    /\ IF date < num_dates
       THEN /\ date' = NextDate(date)
            /\ next_url' = SeedURL(NextDate(date))
            /\ pc' = "while_true"
            /\ served' = <<>>
            /\ extract_failed' = FALSE
            /\ windows' = Append(windows, NextDate(date))
       ELSE /\ pc' = "return"
            /\ UNCHANGED <<date, next_url, served, extract_failed, windows>>
    /\ UNCHANGED <<argVars, cancelled, sleep_due, num_trials, response, article_urls, crawled_urls,
                   crawled_articles, progress_bar, poolVars, output, error,
                   fetch_log, submitted, resubmitted, get_failed>>

(* while True: num_trials = 0 *)
WhileTrue ==
    /\ pc = "while_true"
    /\ num_trials' = 0
    /\ fetch_log' = <<>>
    /\ pc' = "retry"
    /\ UNCHANGED <<argVars, auxVars, date, next_url, response, article_urls, crawled_urls,
                   crawled_articles, progress_bar, poolVars, output, error,
                   submitted, resubmitted, apiVars>>

(* The retry loop's condition. *)
RetryGuard == num_trials < max_trials

(* response = requests.get(next_url); break *)
GetOk ==
    /\ pc = "retry"
    /\ RetryGuard
    /\ \E r \in Responses(next_url) :
        /\ response' = Some(r)
        /\ served' = Append(served, r)
    /\ fetch_log' = Append(fetch_log, "get_ok")
    /\ pc' = "parse"
    /\ UNCHANGED <<argVars, auxVars, date, next_url, num_trials, article_urls, crawled_urls,
                   crawled_articles, progress_bar, poolVars, output, error,
                   submitted, resubmitted, get_failed, extract_failed>>

(* requests.get raised an Exception: the handler starts its sleep. *)
GetFail ==
    /\ pc = "retry"
    /\ RetryGuard
    /\ fetch_log' = Append(fetch_log, "get_fail")
    /\ get_failed' = TRUE
    /\ pc' = "retry_sleep"
    /\ UNCHANGED <<argVars, auxVars, date, next_url, num_trials, response, article_urls,
                   crawled_urls, crawled_articles, progress_bar, poolVars, output,
                   error, submitted, resubmitted, served, extract_failed>>

(* sleep(args.sleep_time); num_trials += 1 *)
RetrySleep ==
    /\ pc = "retry_sleep"
    /\ fetch_log' = Append(fetch_log, "sleep")
    /\ num_trials' = num_trials + 1
    /\ pc' = "retry"
    /\ UNCHANGED <<argVars, auxVars, date, next_url, response, article_urls, crawled_urls,
                   crawled_articles, progress_bar, poolVars, output, error,
                   submitted, resubmitted, apiVars>>

(* The retry loop ends by its condition: nothing is assigned, and the code
   goes on to response.json(). *)
RetryExhausted ==
    /\ pc = "retry"
    /\ ~RetryGuard
    /\ pc' = "parse"
    /\ UNCHANGED <<argVars, auxVars, date, next_url, num_trials, response, article_urls,
                   crawled_urls, crawled_articles, progress_bar, poolVars, output,
                   error, histVars>>

(* A pool is created and every URL of the batch becomes one of its tasks. *)
NewPool(urls) ==
    /\ article_urls' = urls
    /\ pool_next' = 1
    /\ pool_running' = {}
    /\ pool_results' = <<>>
    /\ pool_taken' = 0
    /\ submitted' = submitted \cup Range(urls)
    /\ resubmitted' = resubmitted \cup (Range(urls) \cap submitted)
                        \cup {urls[i] : i \in {j \in 1..Len(urls) :
                                                 \E k \in 1..(j - 1) : urls[k] = urls[j]}}

(* The model stops where the result list would outgrow MaxArticles. *)
WithinBounds(urls) == Len(crawled_articles) + Len(urls) <= MaxArticles

(* request_result = response.json() ... article_urls = re.findall(...);
   with Pool(args.num_workers) as pool *)
ParsePage ==
    /\ pc = "parse"
    /\ IF response = Unbound
       THEN /\ error' = "UnboundLocalError"
            /\ pc' = "crashed"
            /\ UNCHANGED <<next_url, article_urls, poolVars, submitted, resubmitted>>
       ELSE IF response[1].collection = Absent
       THEN /\ error' = "KeyError"
            /\ pc' = "crashed"
            /\ UNCHANGED <<next_url, article_urls, poolVars, submitted, resubmitted>>
       ELSE IF response[1].collection = Null
       THEN /\ pc' = "progress"
            /\ UNCHANGED <<next_url, article_urls, poolVars, error, submitted, resubmitted>>
       ELSE /\ next_url' = response[1].url
            /\ IF response[1].url = EmptyURL
               THEN /\ pc' = "progress"
                    /\ UNCHANGED <<article_urls, poolVars, error, submitted, resubmitted>>
               ELSE /\ WithinBounds(FindAll(response[1].collection.script))
                    /\ NewPool(FindAll(response[1].collection.script))
                    /\ pc' = "pool"
                    /\ UNCHANGED error
    /\ UNCHANGED <<argVars, auxVars, date, num_trials, response, crawled_urls, crawled_articles,
                   progress_bar, output, fetch_log, apiVars>>

(* A pool that starts a process per task instead of num_workers processes. *)
WorkerFreeUnbounded == TRUE

(* A worker process is free to take the next task of the pool's task queue. *)
WorkerFree == Cardinality(pool_running) < num_workers

(* A worker takes the next task. *)
WorkerStart ==
    /\ pc = "pool"
    /\ pool_next <= Len(article_urls)
    /\ WorkerFree
    /\ pool_running' = pool_running \cup {pool_next}
    /\ pool_next' = pool_next + 1
    /\ UNCHANGED <<argVars, auxVars, pc, date, next_url, num_trials, response, article_urls,
                   crawled_urls, crawled_articles, progress_bar, pool_results,
                   pool_taken, output, error, histVars>>

(* What a worker hands back for task i when its extraction ends with outcome o. *)
WorkerResult(i, o) ==
    IF prog = "crawl_articles"
    THEN [idx |-> i, val |-> GetArticleBody(article_urls[i], o), raised |-> FALSE]
    ELSE [idx |-> i, val |-> CrawlOneNewsPage(article_urls[i], o),
          raised |-> CrawlOneNewsPageRaises(o)]

(* A worker finishes its task: the result goes to the pool's result queue. *)
WorkerFinish ==
    /\ pc = "pool"
    /\ \E i \in pool_running, o \in Outcomes :
        /\ pool_running' = pool_running \ {i}
        /\ pool_results' = Append(pool_results, WorkerResult(i, o))
        /\ extract_failed' = (extract_failed \/ o # "ok")
    /\ UNCHANGED <<argVars, auxVars, pc, date, next_url, num_trials, response, article_urls,
                   crawled_urls, crawled_articles, progress_bar, pool_next,
                   pool_taken, output, error, fetch_log, submitted, resubmitted,
                   served, get_failed>>

(* A loop body without the test for None: a failed extraction leaves an
   empty record in the list. *)
CollectedUntested(articles, body) ==
    Append(articles, IF body # None THEN body[1]
                     ELSE [title |-> "", text |-> "", source |-> ""])

(* crawled_articles after the loop body ran for one result. *)
Collected(articles, body) ==
    IF body # None THEN Append(articles, body[1]) ELSE articles

(* for article_body in pool.imap_unordered(...): the next result that arrived. *)
ForArticleBody ==
    /\ pc = "pool"
    /\ pool_results # <<>>
    /\ crawled_articles' = Collected(crawled_articles, Head(pool_results).val)
    /\ pool_results' = Tail(pool_results)
    /\ pool_taken' = pool_taken + 1
    /\ UNCHANGED <<argVars, auxVars, pc, date, next_url, num_trials, response, article_urls,
                   crawled_urls, progress_bar, pool_next, pool_running, output,
                   error, histVars>>

(* A pool whose iterator ends once every task was handed to a worker. *)
IteratorExhaustedEarly == pool_next > Len(article_urls)

(* The for loop over the pool's results ends: every task's result was iterated. *)
IteratorExhausted == pool_taken = Len(article_urls)

(* An assignment in the place of the update. *)
UpdateURLsAssigned(seen, urls) == Range(urls)

(* crawled_urls.update(article_urls) *)
UpdateURLs(seen, urls) == seen \cup Range(urls)

(* The iterator is exhausted: the pool is left, crawled_urls.update(article_urls),
   set_postfix, and the inter-page sleep starts. *)
PoolDone ==
    /\ pc = "pool"
    /\ IteratorExhausted
    /\ crawled_urls' = UpdateURLs(crawled_urls, article_urls)
    /\ sleep_due' = TRUE
    /\ pc' = "page_sleep"
    /\ UNCHANGED <<argVars, windows, cancelled, date, next_url, num_trials, response, article_urls,
                   crawled_articles, progress_bar, poolVars, output, error, histVars>>

(* sleep(args.sleep_time), then the next iteration of while True. *)
PageSleep ==
    /\ pc = "page_sleep"
    /\ sleep_due' = FALSE
    /\ pc' = "while_true"
    /\ UNCHANGED <<argVars, windows, cancelled, date, next_url, num_trials, response, article_urls,
                   crawled_urls, crawled_articles, progress_bar, poolVars, output,
                   error, histVars>>

(* progress_bar.update(1), after the while loop was left by a break. *)
ProgressUpdate ==
    /\ pc = "progress"
    /\ progress_bar' = progress_bar + 1
    /\ pc' = "for_date"
    /\ UNCHANGED <<argVars, auxVars, date, next_url, num_trials, response, article_urls,
                   crawled_urls, crawled_articles, poolVars, output, error, histVars>>

(* return crawled_articles; __main__ dumps it to args.output_path. *)
MainDump ==
    /\ pc = "return"
    /\ output' = Some(crawled_articles)
    /\ pc' = "done"
    /\ UNCHANGED <<argVars, auxVars, date, next_url, num_trials, response, article_urls,
                   crawled_urls, crawled_articles, progress_bar, poolVars, error,
                   histVars>>

(* The positions at which the run is over. *)
Terminal == {"done", "crashed", "exited"}

(* A handler that treats the interrupt like any failed requests.get. *)
InterruptedPosition(p) == IF p = "retry" THEN "retry_sleep" ELSE "exited"

(* Where the orchestrating process is after the interrupt: exit() in the
   handler of the retry loop, an uncaught KeyboardInterrupt elsewhere. *)
InterruptPosition(p) == "exited"

(* KeyboardInterrupt, raised in the orchestrating process and in the workers:
   inside requests.get the handler calls exit(); elsewhere nothing catches it.
   Either way the process ends and __main__'s dump is never reached. The
   workers at work end with it: get_article_body's handler calls exit(), and
   leaving the with block terminates the pool. *)
Interrupt ==
    /\ pc \notin Terminal
    /\ cancelled' = TRUE
    /\ error' = (IF pc = "retry" THEN "SystemExit" ELSE "KeyboardInterrupt")
    /\ pc' = InterruptPosition(pc)
    /\ pool_running' = {}
    /\ UNCHANGED <<argVars, windows, sleep_due, date, next_url, num_trials, response,
                   article_urls, crawled_urls, crawled_articles, progress_bar,
                   pool_next, pool_results, pool_taken, output, histVars>>

(* ---------------------------- crawl.py: crawl_news --------------------- *)

InitCrawl == prog = "crawl_news" /\ InitCommon

(* for date in date_list: the window's seed URL, or the return. *)
CNForDate ==
    /\ pc = "for_date"
    /\ IF date < num_dates
       THEN /\ date' = NextDate(date)
            /\ next_url' = SeedURL(NextDate(date))
            /\ pc' = "get"
            /\ served' = <<>>
            /\ extract_failed' = FALSE
            /\ windows' = Append(windows, NextDate(date))
       ELSE /\ pc' = "return"
            /\ UNCHANGED <<date, next_url, served, extract_failed, windows>>
    /\ UNCHANGED <<argVars, cancelled, sleep_due, num_trials, response, article_urls, crawled_urls,
                   crawled_articles, progress_bar, poolVars, output, error,
                   fetch_log, submitted, resubmitted, get_failed>>

(* response = requests.get(next_url): there is no try around it. *)
CNGet ==
    /\ pc = "get"
    /\ \/ /\ \E r \in Responses(next_url) :
              /\ response' = Some(r)
              /\ served' = Append(served, r)
          /\ fetch_log' = <<"get_ok">>
          /\ pc' = "parse"
          /\ UNCHANGED <<error, get_failed>>
       \/ /\ fetch_log' = <<"get_fail">>
          /\ get_failed' = TRUE
          /\ error' = "RequestException"
          /\ pc' = "crashed"
          /\ UNCHANGED <<response, served>>
    /\ UNCHANGED <<argVars, auxVars, date, next_url, num_trials, article_urls, crawled_urls,
                   crawled_articles, progress_bar, poolVars, output,
                   submitted, resubmitted, extract_failed>>

(* response_data = response.json() ... news_urls = re.findall(...);
   with Pool(args.num_processes) as pool *)
CNParsePage ==
    /\ pc = "parse"
    /\ IF response[1].collection \in {Absent, Null}
       THEN /\ pc' = "for_date"
            /\ UNCHANGED <<article_urls, poolVars, submitted, resubmitted>>
       ELSE /\ WithinBounds(FindAll(response[1].collection.script))
            /\ NewPool(FindAll(response[1].collection.script))
            /\ pc' = "pool"
    /\ UNCHANGED <<argVars, auxVars, date, next_url, num_trials, response, crawled_urls,
                   crawled_articles, progress_bar, output, error, fetch_log, apiVars>>

(* What crawl_news appends for a record. *)
TitleText(body) == [title |-> body.title, text |-> body.text]

(* for news_content in pool.imap(...): the results come in the order of
   news_urls; an exception of a task is raised again here. *)
CNForNewsContent ==
    /\ pc = "pool"
    /\ \E k \in 1..Len(pool_results) :
        /\ pool_results[k].idx = pool_taken + 1
        /\ pool_results' = [j \in 1..(Len(pool_results) - 1) |->
                               IF j < k THEN pool_results[j] ELSE pool_results[j + 1]]
        /\ IF pool_results[k].raised
           THEN /\ error' = "ExtractionError"
                /\ pc' = "crashed"
                /\ UNCHANGED <<crawled_articles, pool_taken>>
           ELSE /\ crawled_articles' =
                      (IF pool_results[k].val # None
                       THEN Append(crawled_articles, TitleText(pool_results[k].val[1]))
                       ELSE crawled_articles)
                /\ pool_taken' = pool_taken + 1
                /\ UNCHANGED <<pc, error>>
    /\ UNCHANGED <<argVars, auxVars, date, next_url, num_trials, response, article_urls,
                   crawled_urls, progress_bar, pool_next, pool_running, output,
                   histVars>>

(* After the for loop, still inside the with block: next_url = response_data["url"],
   break on the empty string; else set_postfix and progress_bar.update(1). *)
CNPoolDone ==
    /\ pc = "pool"
    /\ IteratorExhausted
    /\ sleep_due' = TRUE
    /\ next_url' = response[1].url
    /\ IF response[1].url = EmptyURL
       THEN /\ pc' = "for_date"
            /\ UNCHANGED progress_bar
       ELSE /\ progress_bar' = progress_bar + 1
            /\ pc' = "get"
    /\ UNCHANGED <<argVars, windows, cancelled, date, num_trials, response,
                   article_urls, crawled_urls, crawled_articles, poolVars, output,
                   error, histVars>>

(* return news_data; __main__ opens output.json without a mode, that is for
   reading: the open or the dump raises and nothing is written. *)
CNMainDump ==
    /\ pc = "return"
    /\ error' = "OSError"
    /\ pc' = "crashed"
    /\ UNCHANGED <<argVars, auxVars, date, next_url, num_trials, response, article_urls,
                   crawled_urls, crawled_articles, progress_bar, poolVars, output,
                   histVars>>

(* KeyboardInterrupt: crawl.py catches it nowhere. *)
CNInterrupt ==
    /\ pc \notin Terminal
    /\ cancelled' = TRUE
    /\ error' = "KeyboardInterrupt"
    /\ pc' = "exited"
    /\ pool_running' = {}
    /\ UNCHANGED <<argVars, windows, sleep_due, date, next_url, num_trials, response,
                   article_urls, crawled_urls, crawled_articles, progress_bar,
                   pool_next, pool_results, pool_taken, output, histVars>>

RunCrawl ==
    \/ CNForDate
    \/ CNGet
    \/ CNParsePage
    \/ WorkerStart
    \/ WorkerFinish
    \/ CNForNewsContent
    \/ CNPoolDone
    \/ CNMainDump

NextCrawl == RunCrawl \/ CNInterrupt

SpecCrawl == InitCrawl /\ [][NextCrawl]_vars

(* ------------------------- the specifications -------------------------- *)

Run ==
    \/ ForDate
    \/ WhileTrue
    \/ GetOk
    \/ GetFail
    \/ RetrySleep
    \/ RetryExhausted
    \/ ParsePage
    \/ WorkerStart
    \/ WorkerFinish
    \/ ForArticleBody
    \/ PoolDone
    \/ PageSleep
    \/ ProgressUpdate
    \/ MainDump

Next == Run \/ Interrupt

Spec == Init /\ [][Next]_vars

(* crawl_articles without an interrupt: the process always takes its next
   step, and so do the pool's workers. *)
FairSpec == Init /\ [][Run]_vars /\ WF_vars(Run)

(* ------------------------------ the claims ----------------------------- *)

Last(s) == s[Len(s)]
Count(s, x) == Cardinality({i \in 1..Len(s) : s[i] = x})

(* The response the code holds was returned by this page's own requests.get. *)
Fresh == fetch_log # <<>> /\ Last(fetch_log) = "get_ok"

(* Every requests.get of this page's retry loop failed. *)
Exhausted == fetch_log # <<>> /\ Last(fetch_log) = "sleep" /\ ~RetryGuard

(* The model stopped at the MaxArticles bound. *)
Truncated ==
    /\ pc = "parse"
    /\ response # Unbound
    /\ response[1].collection.kind = "list"
    /\ ~WithinBounds(FindAll(response[1].collection.script))

(* C1: over one run every distinct article URL is handed to a pool exactly
   once; a later occurrence of the URL is filtered out. As stated: no URL is
   ever handed to a pool a second time (here of the runs in which no page
   fetch fails, so that no retry is involved). *)
C1_AdmittedOnce == ~get_failed => resubmitted = {}

(* C2: a page whose "url" is the empty string ends the window only after its
   own article URLs were handed to the pool. As stated: once the window has
   ended on such a page, the page's URLs are the batch that was extracted. *)
C2_LastPageExtracted ==
    (/\ pc = "progress"
     /\ Fresh
     /\ response[1].collection.kind = "list"
     /\ response[1].url = EmptyURL)
    => (/\ article_urls = FindAll(response[1].collection.script)
        /\ Range(article_urls) \subseteq submitted)

(* C3: when every attempt of a page fetch failed, the window ends with no
   exception and no earlier response re-used. As stated: after an exhausted
   retry loop the run neither crashes nor extracts a batch. *)
C3_ExhaustedEndsWindow ==
    Exhausted => pc \notin {"crashed", "pool", "page_sleep"}

(* C4: absent cancellation the run always terminates. As stated: every fair
   run without an interrupt comes to an end (or to the model's bound). *)
C4_Terminates == <>(pc \in Terminal \/ Truncated)

(* C5: the retry loop makes at most max_trials attempts; a success is the
   response used; after max_trials failures there were exactly max_trials
   attempts with a sleep only between consecutive attempts. *)
C5_BoundedRetry ==
    (pc = "parse") =>
        /\ Count(fetch_log, "get_ok") + Count(fetch_log, "get_fail") <= max_trials
        /\ Fresh => (response # Unbound /\ Last(served) = response[1])
        /\ ~Fresh =>
              /\ Count(fetch_log, "get_fail") = max_trials
              /\ Count(fetch_log, "sleep") = max_trials - 1
              /\ \A i \in 1..Len(fetch_log) :
                    fetch_log[i] = "sleep" =>
                        (i < Len(fetch_log) /\ fetch_log[i + 1] # "sleep")

(* The run of C6: one day, page 1 with two URLs and a link to page 2, page 2
   with one new URL and one of page 1 and the empty string as its "url", no
   failed fetch and no failed extraction. *)
C6_Scenario ==
    /\ num_dates = 1
    /\ served = << [collection |-> Collection(<<"a", "b">>), url |-> PageURL(1, 2)],
                   [collection |-> Collection(<<"c", "a">>), url |-> EmptyURL] >>
    /\ ~get_failed
    /\ ~extract_failed

(* C6: that run ends without error and its result holds exactly 3 records. *)
C6_EndToEnd ==
    (C6_Scenario /\ pc \in {"done", "crashed"})
    => (/\ pc = "done"
        /\ output = Some(crawled_articles)
        /\ Len(crawled_articles) = 3)

(* C7: a response whose "collection" is null or absent ends the window as a
   normal state: nothing of it is extracted and no error is raised. *)
C7_NoCollectionEndsWindow ==
    (/\ Fresh
     /\ response[1].collection.kind \in {"null", "absent"})
    => pc \notin {"crashed", "pool", "page_sleep"}

(* C8: an interrupt ends the run with the records accumulated so far emitted
   as the output. *)
C8_InterruptKeepsResults ==
    (pc = "exited" /\ crawled_articles # <<>>) => output = Some(crawled_articles)

(* C9: an extraction that fails, whatever the failure, drops only its URL:
   the batch completes and the run goes on. As stated: no failed extraction
   ends the run. *)
C9_FailureDropsOnlyURL ==
    (extract_failed /\ pc = "crashed") => error \notin {"ExtractionError"}

(* C10: at every moment at most num_workers extractions are in flight,
   whatever the size of the batch. *)
C10_AtMostNumWorkers == Cardinality(pool_running) <= num_workers

(* A batch larger than the pool, every worker busy and a task still waiting. *)
C10_Witness ==
    /\ pc = "pool"
    /\ Len(article_urls) > num_workers
    /\ Cardinality(pool_running) = num_workers
    /\ pool_next <= Len(article_urls)

(* C11: once the interrupt signal was raised, no page fetch is issued (the
   attempts the retry loop had left are not made), no task of the pool is
   handed to a worker, the extractions in flight are over, and the run has
   stopped: the step that raises the signal, and any step after it, leaves
   the process at its exit with the fetches and the scheduled tasks as they
   were. *)
C11_CancelStops ==
    [][cancelled' =>
          /\ pc' = "exited"
          /\ fetch_log' = fetch_log
          /\ served' = served
          /\ pool_next' = pool_next
          /\ submitted' = submitted
          /\ pool_running' = {}]_vars

(* The signal came inside the retry loop after a failed attempt, with
   attempts left. *)
C11_Witness ==
    /\ cancelled
    /\ pc = "exited"
    /\ error = "SystemExit"
    /\ fetch_log # <<>>
    /\ Last(fetch_log) = "sleep"
    /\ RetryGuard

(* C12: the date windows the run iterates begin at start_date, each is the
   day after the one before it, they are entered in that order, and a run
   that reaches its return has entered as many windows as the range has days
   (num_dates, the inclusive day count of start_date..end_date). Days are
   named by their position in dates. *)
C12_WindowsInOrder ==
    /\ Len(windows) <= num_dates
    /\ windows # <<>> => windows[1] = 1 /\ Last(windows) = date
    /\ \A i \in 1..(Len(windows) - 1) : windows[i + 1] = windows[i] + 1
    /\ pc \in {"return", "done"} => Len(windows) = num_dates

(* A run over more than one day came to its return. *)
C12_Witness ==
    /\ pc = "return"
    /\ num_dates > 1
    /\ Len(windows) = num_dates

(* C13: within one date window pagination is forward and single pass: a page
   fetch after the window's first asks for the "url" of the response the
   fetch before it returned, next_url never goes back to an earlier page of
   the window, and a response is parsed, and its batch extracted, only in the
   iteration whose own requests.get returned it, hence once. *)
C13_ForwardSinglePass ==
    [][/\ (pc = "retry" /\ served # <<>>) => next_url = Last(served).url
       /\ (date' = date /\ next_url' # EmptyURL) => next_url'.start >= next_url.start
       /\ (pc = "parse" /\ pc' \in {"pool", "progress"}) => Fresh]_vars

(* C14: pages are never overlapped: whenever the orchestrating process is
   outside the pool's for loop (at a page fetch, a sleep, the parse of a
   response, the start of the next date window or the return), every task
   of the last batch was handed to a worker, no extraction is in flight, and
   every result was iterated and, if a record, appended. *)
C14_NoOverlap ==
    pc \notin {"pool", "crashed", "exited"} =>
        /\ pool_running = {}
        /\ pool_results = <<>>
        /\ pool_next = Len(article_urls) + 1
        /\ pool_taken = Len(article_urls)

(* The fetch of a window's second page after a batch of two URLs was
   extracted by two workers. *)
C14_Witness ==
    /\ pc = "retry"
    /\ served # <<>>
    /\ Len(article_urls) = 2
    /\ num_workers = 2
    /\ Len(crawled_articles) = 2

(* C15: every entry of the result list is the whole record of a successful
   extraction of a URL that was handed to a pool; the results iterated, held
   and in the making never outnumber the tasks handed out, which never
   outnumber the batch; and the list changes only by the loop body taking one
   result that is not None and appending that result's record, the record of
   the task's URL: so a failed extraction appends nothing and a submission
   appends at most one record. *)
C15_OnlyExtractedRecords ==
    /\ [](/\ \A i \in 1..Len(crawled_articles) :
                \E u \in submitted : crawled_articles[i] = ArticleBody(u)
          /\ pool_taken + Len(pool_results) + Cardinality(pool_running) <= pool_next - 1
          /\ pool_next - 1 <= Len(article_urls)
          /\ \A j, k \in 1..Len(pool_results) :
                pool_results[j].idx = pool_results[k].idx => j = k)
    /\ [][crawled_articles' # crawled_articles =>
             /\ pool_results # <<>>
             /\ pool_results' = Tail(pool_results)
             /\ pool_taken' = pool_taken + 1
             /\ Head(pool_results).val # None
             /\ crawled_articles' =
                   Append(crawled_articles,
                          ArticleBody(article_urls[Head(pool_results).idx]))]_vars

(* A batch of two URLs was iterated: one extraction failed, the other left
   its record. *)
C15_Witness ==
    /\ pc = "pool"
    /\ Len(article_urls) = 2
    /\ pool_taken = 2
    /\ extract_failed
    /\ Len(crawled_articles) = 1

(* s is t's beginning. *)
IsPrefix(s, t) == Len(s) <= Len(t) /\ \A i \in 1..Len(s) : t[i] = s[i]

(* C16: crawled_urls and crawled_articles only grow, at every step of a run
   and across pages and date windows: the set keeps every URL, the list
   keeps every entry at its place; a step of a worker (a task taken or
   finished) leaves both as they are; the list changes only when the loop
   takes a result that was handed back, the set only after the whole batch
   was iterated. *)
C16_OnlyGrowByTheLoop ==
    [][/\ crawled_urls \subseteq crawled_urls'
       /\ IsPrefix(crawled_articles, crawled_articles')
       /\ pool_running' # pool_running =>
             (crawled_urls' = crawled_urls /\ crawled_articles' = crawled_articles)
       /\ crawled_articles' # crawled_articles => (pc = "pool" /\ pool_results # <<>>)
       /\ crawled_urls' # crawled_urls => (pc = "pool" /\ IteratorExhausted)]_vars

(* In the second date window, with what the first one left, a worker is at
   work on a batch. *)
C16_Witness ==
    /\ date = 2
    /\ pc = "pool"
    /\ pool_running # {}
    /\ crawled_urls # {}
    /\ crawled_articles # <<>>

(* C17: after a page whose batch was extracted the orchestrating process
   sleeps before it issues a further page fetch: no requests.get is reached
   while the sleep that follows an extracted batch is still due. *)
C17_SleepBetweenPages == pc \in {"retry", "get"} => ~sleep_due

(* C18: progress is advanced once per date window, however many pages the
   window had and however its pagination ended: when the crawl comes to its
   return, progress_bar.n is the number of date windows, the bar's total. *)
C18_ProgressPerWindow == pc \in {"return", "done"} => progress_bar = num_dates

====
